---- MODULE Spec2Model ----
(***************************************************************************)
(* Model of the Streamlit front end of my-local-ai (streamlit-front-end/    *)
(* app-v4.py, with app.py and app-v2.py where they share the code): the     *)
(* two streaming generators stream_chat_ollama and pull_model_stream, the   *)
(* sidebar (catalog query, model selection, pull handler) and the chat      *)
(* submit handler working on st.session_state.messages.                     *)
(*                                                                          *)
(* Text is modelled as a sequence of one-character strings, so that strip,  *)
(* rstrip, concatenation and iteration over characters are computed.        *)
(*                                                                          *)
(* Three specifications share the definitions:                              *)
(*   SpecStream  the two generators, each run over a whole response;        *)
(*   Spec        the session with the chat submit handler;                  *)
(*   SpecPull    the session with the sidebar's pull handler.               *)
(* A script run serves one UI event, so the chat handler and the pull       *)
(* handler never run in the same script run, and the pull handler does not  *)
(* touch st.session_state.messages.                                         *)
(***************************************************************************)
EXTENDS Integers, Sequences, FiniteSets, TLC

VARIABLES
    \* --- st.session_state and widget state, kept across script runs ---
    messages,       \* st.session_state.messages: sequence of [role, content]
    chosen_model,   \* st.session_state["chosen_model"]: None or a model name
    base_url,       \* the "Ollama Base URL" text input
    model_to_pull,  \* the "Enter model name to pull" text input
    \* --- locals of the current script run ---
    pulled_models,  \* models returned by the sidebar's get_pulled_models()
    healthy,        \* health_info is not an error string
    clear,          \* the "Clear chat history" button fired this run
    user_prompt,    \* st.chat_input's value this run: None or the prompt
    model,          \* model = st.session_state.get("chosen_model")
    pc,             \* "idle", "chat" (streaming the answer) or "pull"
    requests,       \* HTTP requests issued since the triggering UI event
    streamed,       \* chunks st.write_stream has received so far
    taken,          \* lines taken from the current streamed response
    full_response,  \* the chat handler's full_response
    chat_error,     \* message given to st.error by the chat handler, or None
    last_line,      \* the pull handler's last_line
    pull_report,    \* what the pull handler reported
    log_before,     \* history: st.session_state.messages when the run began
    \* --- generator harness (SpecStream) ---
    gen,            \* which generator runs: "chat" or "pull"
    input,          \* the transport's response: [lines, fail]
    pos,            \* number of lines of input.lines taken from iter_lines
    yielded,        \* items the generator has yielded so far
    status,         \* "running", "returned" (ended normally) or "raised"
    err             \* message of the exception the generator raised

sessionVars == <<messages, chosen_model, base_url, model_to_pull, pulled_models,
                 healthy, clear, user_prompt, model, pc, requests, streamed,
                 taken, full_response, chat_error, last_line, pull_report,
                 log_before>>

streamVars == <<gen, input, pos, yielded, status, err>>

vars == <<sessionVars, streamVars>>

(***************************************************************************)
(* Bounds of the model.                                                     *)
(***************************************************************************)
MaxLines == 3       \* lines in one streamed response (SpecStream)
MaxChatLines == 2   \* lines the server sends in one chat answer (Spec)
MaxPullLines == 2   \* lines the server sends in one pull (SpecPull)
MaxMessages == 5    \* length of st.session_state.messages (Spec)

(***************************************************************************)
(* Text helpers (Python str operations).                                    *)
(***************************************************************************)
\* Python's None; no text is equal to it (a text holds one-character strings).
None == <<"<None>">>

Whitespace == {" ", "\t", "\n"}

RECURSIVE LStrip(_)
LStrip(s) ==
    IF s # <<>> /\ Head(s) \in Whitespace THEN LStrip(Tail(s)) ELSE s

RECURSIVE RStripSet(_, _)
RStripSet(s, cs) ==
    IF s # <<>> /\ s[Len(s)] \in cs THEN RStripSet(SubSeq(s, 1, Len(s) - 1), cs) ELSE s

\* str.strip()
Strip(s) == RStripSet(LStrip(s), Whitespace)

\* "".join(parts)
RECURSIVE Join(_)
Join(parts) ==
    IF parts = <<>> THEN <<>> ELSE Head(parts) \o Join(Tail(parts))

\* All sequences over S of length at most n.
SeqsUpTo(S, n) == UNION { [1..k -> S] : k \in 0..n }

(***************************************************************************)
(* The transport: what requests.post(..., stream=True) delivers.            *)
(* A response is [lines, fail]: iter_lines produces lines in order; then    *)
(* fail = NoFailure means the body ends, any other value is the cause of a  *)
(* requests.RequestException raised at that point (with no line delivered   *)
(* it stands for a refused connection or an HTTP error status).             *)
(***************************************************************************)
NoFailure == <<>>
Causes == {<<"x">>}

\* A JSON object is a function from its keys to their values.
EmptyDict == [k \in {} |-> <<>>]

ErrorTexts == {<<"E">>}
Contents == {<<>>, <<"A">>, <<" ">>}

MessageFields == {EmptyDict} \cup {("message" :> ("content" :> c)) : c \in Contents}
DoneFields == {EmptyDict, ("done" :> FALSE), ("done" :> TRUE)}

\* {"message": {"content": ...}, "done": ...} with either key optional
ContentObjects == {m @@ d : m \in MessageFields, d \in DoneFields}

\* {"error": ...}, alone or next to content and done fields
ErrorObjects ==
    {("error" :> e) @@ m @@ d :
        e \in ErrorTexts,
        m \in {EmptyDict, ("message" :> ("content" :> <<"A">>))},
        d \in {EmptyDict, ("done" :> TRUE)}}

\* A line of the chat response: the empty line, a whitespace-only line, a
\* line that is not JSON, or a line holding a JSON object.
JunkLines == {[kind |-> "empty"], [kind |-> "blank"], [kind |-> "garbage"]}
JsonLines == {[kind |-> "json", data |-> o] : o \in ContentObjects \cup ErrorObjects}
ChatLines == JunkLines \cup JsonLines

ChatResponses == [lines : SeqsUpTo(ChatLines, MaxLines), fail : {NoFailure} \cup Causes]


\* Raw lines of the pull response are byte strings: ASCII bytes and 255 (0xFF),
\* a byte that is never valid in UTF-8.
PullRawLines == {<<>>, <<115>>, <<123, 255>>}
PullResponses == [lines : SeqsUpTo(PullRawLines, MaxLines), fail : {NoFailure} \cup Causes]

(***************************************************************************)
(* stream_chat_ollama: the body of the loop over r.iter_lines().            *)
(***************************************************************************)
\* dict.get(key, default)
DictGet(d, key, default) == IF key \in DOMAIN d THEN d[key] ELSE default

\* json.loads(line): the decoded object, or JSONDecodeError (ok = FALSE)
JsonLoads(line) ==
    IF line.kind = "json" THEN [ok |-> TRUE, data |-> line.data]
    ELSE [ok |-> FALSE, data |-> EmptyDict]

\* Variant of ChatOnLine that honours the done flag before the content.
ChatOnLine_DoneBeforeContent(line) ==
    IF line.kind = "empty" \/ ~JsonLoads(line).ok
    THEN [yield |-> <<>>, end |-> "continue", err |-> <<>>]
    ELSE LET data == JsonLoads(line).data
             msg == DictGet(data, "message", EmptyDict)
             chunk == DictGet(msg, "content", <<>>)
             done == DictGet(data, "done", FALSE)
         IN  IF "error" \in DOMAIN data
             THEN [yield |-> <<>>, end |-> "raise", err |-> data["error"]]
             ELSE IF done
             THEN [yield |-> <<>>, end |-> "break", err |-> <<>>]
             ELSE [yield |-> IF chunk # <<>> THEN <<chunk>> ELSE <<>>,
                   end |-> "continue", err |-> <<>>]

\* Variant of ChatOnLine that looks for the error key after handling content
\* and done.
ChatOnLine_ErrorCheckedLast(line) ==
    IF line.kind = "empty" \/ ~JsonLoads(line).ok
    THEN [yield |-> <<>>, end |-> "continue", err |-> <<>>]
    ELSE LET data == JsonLoads(line).data
             msg == DictGet(data, "message", EmptyDict)
             chunk == DictGet(msg, "content", <<>>)
             done == DictGet(data, "done", FALSE)
         IN  [yield |-> IF chunk # <<>> THEN <<chunk>> ELSE <<>>,
              end |-> IF done THEN "break"
                      ELSE IF "error" \in DOMAIN data THEN "raise" ELSE "continue",
              err |-> IF ~done /\ "error" \in DOMAIN data THEN data["error"] ELSE <<>>]

\* Variant of ChatOnLine without the except clause: JSONDecodeError escapes.
ChatOnLine_DecodeErrorEscapes(line) ==
    IF line.kind = "empty"
    THEN [yield |-> <<>>, end |-> "continue", err |-> <<>>]
    ELSE IF ~JsonLoads(line).ok
    THEN [yield |-> <<>>, end |-> "raise", err |-> <<"J","S","O","N">>]
    ELSE LET data == JsonLoads(line).data
             msg == DictGet(data, "message", EmptyDict)
             chunk == DictGet(msg, "content", <<>>)
             done == DictGet(data, "done", FALSE)
         IN  IF "error" \in DOMAIN data
             THEN [yield |-> <<>>, end |-> "raise", err |-> data["error"]]
             ELSE [yield |-> IF chunk # <<>> THEN <<chunk>> ELSE <<>>,
                   end |-> IF done THEN "break" ELSE "continue",
                   err |-> <<>>]

\* One iteration of the loop: what is yielded (at most one chunk), how the
\* iteration ends ("continue", "break" or "raise") and the error raised.
ChatOnLine(line) ==
    IF line.kind = "empty"
    THEN [yield |-> <<>>, end |-> "continue", err |-> <<>>]
    ELSE IF ~JsonLoads(line).ok
    THEN [yield |-> <<>>, end |-> "continue", err |-> <<>>]
    ELSE LET data == JsonLoads(line).data
             msg == DictGet(data, "message", EmptyDict)
             chunk == DictGet(msg, "content", <<>>)
             done == DictGet(data, "done", FALSE)
         IN  IF "error" \in DOMAIN data
             THEN [yield |-> <<>>, end |-> "raise", err |-> data["error"]]
             ELSE [yield |-> IF chunk # <<>> THEN <<chunk>> ELSE <<>>,
                   end |-> IF done THEN "break" ELSE "continue",
                   err |-> <<>>]

\* f"Failed to reach Ollama at {base_url}: {e}"
FailedToReach(url, cause) ==
    <<"F","a","i","l","e","d"," ","t","o"," ","r","e","a","c","h"," ",
      "O","l","l","a","m","a"," ","a","t"," ">> \o url \o <<":"," ">> \o cause

(***************************************************************************)
(* pull_model_stream.                                                       *)
(***************************************************************************)
\* bytes.decode("utf-8", errors="replace") on ASCII bytes and 0xFF
DecodeByte(b) ==
    IF b >= 128 THEN "<U+FFFD>"
    ELSE CASE b = 115 -> "s" [] b = 123 -> "{" [] OTHER -> "?"

Utf8Decode(raw) == [i \in 1..Len(raw) |-> DecodeByte(raw[i])]

\* if raw: yield raw.decode(...)
PullOnLine(raw) == IF raw # <<>> THEN <<Utf8Decode(raw)>> ELSE <<>>

\* f"ERROR: {e}"
PullErrorItem(cause) == <<"E","R","R","O","R",":"," ">> \o cause

(***************************************************************************)
(* The session: constants and inputs.                                       *)
(***************************************************************************)
SystemPrompt ==
    <<"Y","o","u"," ","a","r","e"," ","a"," ","h","e","l","p","f","u","l"," ",
      "A","I"," ","a","s","s","i","s","t","a","n","t",".">>

\* A variant of the initial conversation with no system message.
InitialMessages_Empty == <<>>

\* st.session_state.messages after initialisation or "Clear chat history"
InitialMessages == <<[role |-> "system", content |-> SystemPrompt]>>

\* default_base_url = os.getenv('OLLAMA_HOST')
DefaultBaseUrl == <<"d">>
BaseUrls == {DefaultBaseUrl, <<"o", "/">>}

Models == {<<"a">>, <<"b">>}
Prompts == {<<"h">>, <<"?">>}
PullInputs == {<<>>, <<" ">>, <<"a">>, <<"a", " ">>, <<"c">>}

Range(f) == {f[i] : i \in DOMAIN f}

\* What GET /api/tags answers: {"models": [{"name": ...}, ...]} (the key may
\* be missing), or the request fails (ok = FALSE).
CatalogLists == {ns \in SeqsUpTo(Models, 2) : Cardinality(Range(ns)) = Len(ns)}
TagsData ==
    {EmptyDict} \cup
    {("models" :> [i \in 1..Len(ns) |-> ("name" :> ns[i])]) : ns \in CatalogLists}
TagsResponses ==
    {[ok |-> TRUE, data |-> d] : d \in TagsData} \cup {[ok |-> FALSE, data |-> EmptyDict]}

\* base_url = base_url or default_base_url
BaseOrDefault(arg) == IF arg = None \/ arg = <<>> THEN DefaultBaseUrl ELSE arg

\* requests.get(f"{base_url}/api/tags") of get_pulled_models(base_url=None)
TagsRequest(arg) == [path |-> "/api/tags", base |-> BaseOrDefault(arg), model |-> None]

\* requests.post(f"{base_url}/api/pull", json={"name": model_name})
PullRequest(name, arg) == [path |-> "/api/pull", base |-> BaseOrDefault(arg), model |-> name]

\* requests.post(base_url.rstrip("/") + "/api/chat", json={"model": model, ...})
ChatRequest(m, url) == [path |-> "/api/chat", base |-> RStripSet(url, {"/"}), model |-> m]

\* get_pulled_models: the model names and whether health_info is the data
GetPulledModels(resp) ==
    IF resp.ok
    THEN LET entries == DictGet(resp.data, "models", <<>>)
         IN  [models |-> [i \in 1..Len(entries) |-> DictGet(entries[i], "name", None)],
              healthy |-> TRUE]
    ELSE [models |-> <<>>, healthy |-> FALSE]

\* the sidebar's update of st.session_state["chosen_model"]
ChooseModel(chosen, pulled) ==
    IF pulled # <<>>
    THEN IF chosen \notin Range(pulled) THEN pulled[1] ELSE chosen
    ELSE None

(***************************************************************************)
(* The chat submit handler's accumulation of the streamed text.             *)
(***************************************************************************)
\* st.write_stream(generator): writes every chunk and returns the full text
WriteStream(chunks) == Join(chunks)

\* full_response = ""; for chunk in <text>: full_response += chunk
RECURSIVE AddChunks(_, _)
AddChunks(acc, text) ==
    IF text = <<>> THEN acc ELSE AddChunks(acc \o <<Head(text)>>, Tail(text))

\* Variant of FullResponse that keeps only the last chunk (= instead of +=).
FullResponse_LastChunkOnly(chunks) ==
    IF chunks = <<>> THEN <<>> ELSE chunks[Len(chunks)]

FullResponse(chunks) == AddChunks(<<>>, WriteStream(chunks))

\* what the pull handler reports: nothing yet, success, or the error with the
\* last output
NoReport == [kind |-> "none"]

\* the part of the state a specification does not use stays at rest
StreamAtRest ==
    /\ gen = "none"
    /\ input = [lines |-> <<>>, fail |-> NoFailure]
    /\ pos = 0
    /\ yielded = <<>>
    /\ status = "returned"
    /\ err = <<>>

SessionAtRest ==
    /\ messages = InitialMessages
    /\ chosen_model = None
    /\ base_url = DefaultBaseUrl
    /\ model_to_pull = <<>>
    /\ pulled_models = <<>>
    /\ healthy = FALSE
    /\ clear = FALSE
    /\ user_prompt = None
    /\ model = None
    /\ pc = "idle"
    /\ requests = <<>>
    /\ streamed = <<>>
    /\ taken = 0
    /\ full_response = <<>>
    /\ chat_error = None
    /\ last_line = <<>>
    /\ pull_report = NoReport
    /\ log_before = <<>>

(***************************************************************************)
(* SpecStream: each generator run to its end over a response drawn from     *)
(* the bounded set of responses.                                            *)
(***************************************************************************)
HarnessUrl == <<"u">>

InitStream ==
    /\ gen \in {"chat", "pull"}
    /\ input \in (IF gen = "chat" THEN ChatResponses ELSE PullResponses)
    /\ pos = 0
    /\ yielded = <<>>
    /\ status = "running"
    /\ err = <<>>
    /\ SessionAtRest

\* stream_chat_ollama takes the next line from iter_lines
ChatTakeLine ==
    /\ gen = "chat" /\ status = "running"
    /\ pos < Len(input.lines)
    /\ LET r == ChatOnLine(input.lines[pos + 1])
       IN  /\ yielded' = yielded \o r.yield
           /\ status' = CASE r.end = "raise" -> "raised"
                          [] r.end = "break" -> "returned"
                          [] OTHER -> "running"
           /\ err' = r.err
    /\ pos' = pos + 1
    /\ UNCHANGED <<gen, input>>
    /\ UNCHANGED sessionVars

\* the transport raises requests.RequestException: wrapped in RuntimeError
ChatTransportFails ==
    /\ gen = "chat" /\ status = "running"
    /\ pos = Len(input.lines) /\ input.fail # NoFailure
    /\ status' = "raised"
    /\ err' = FailedToReach(HarnessUrl, input.fail)
    /\ UNCHANGED <<gen, input, pos, yielded>>
    /\ UNCHANGED sessionVars

\* iter_lines is exhausted: the generator returns
ChatBodyEnds ==
    /\ gen = "chat" /\ status = "running"
    /\ pos = Len(input.lines) /\ input.fail = NoFailure
    /\ status' = "returned"
    /\ UNCHANGED <<gen, input, pos, yielded, err>>
    /\ UNCHANGED sessionVars

PullTakeLine ==
    /\ gen = "pull" /\ status = "running"
    /\ pos < Len(input.lines)
    /\ yielded' = yielded \o PullOnLine(input.lines[pos + 1])
    /\ pos' = pos + 1
    /\ UNCHANGED <<gen, input, status, err>>
    /\ UNCHANGED sessionVars

\* Variant of PullTransportFails that re-raises, as stream_chat_ollama does.
PullTransportFails_Raises ==
    /\ gen = "pull" /\ status = "running"
    /\ pos = Len(input.lines) /\ input.fail # NoFailure
    /\ status' = "raised"
    /\ err' = input.fail
    /\ UNCHANGED <<gen, input, pos, yielded>>
    /\ UNCHANGED sessionVars

\* except requests.RequestException as e: yield f"ERROR: {e}"
PullTransportFails ==
    /\ gen = "pull" /\ status = "running"
    /\ pos = Len(input.lines) /\ input.fail # NoFailure
    /\ yielded' = Append(yielded, PullErrorItem(input.fail))
    /\ status' = "returned"
    /\ UNCHANGED <<gen, input, pos, err>>
    /\ UNCHANGED sessionVars

PullBodyEnds ==
    /\ gen = "pull" /\ status = "running"
    /\ pos = Len(input.lines) /\ input.fail = NoFailure
    /\ status' = "returned"
    /\ UNCHANGED <<gen, input, pos, yielded, err>>
    /\ UNCHANGED sessionVars

NextStream ==
    \/ ChatTakeLine
    \/ ChatTransportFails
    \/ ChatBodyEnds
    \/ PullTakeLine
    \/ PullTransportFails
    \/ PullBodyEnds

SpecStream == InitStream /\ [][NextStream]_vars


\* stream_chat_ollama run to its end over a whole response
RECURSIVE RunChat(_, _, _)
RunChat(lines, fail, sofar) ==
    IF lines = <<>>
    THEN IF fail # NoFailure
         THEN [yielded |-> sofar, status |-> "raised", err |-> FailedToReach(HarnessUrl, fail)]
         ELSE [yielded |-> sofar, status |-> "returned", err |-> <<>>]
    ELSE LET r == ChatOnLine(Head(lines))
         IN  CASE r.end = "raise" ->
                    [yielded |-> sofar, status |-> "raised", err |-> r.err]
               [] r.end = "break" ->
                    [yielded |-> sofar \o r.yield, status |-> "returned", err |-> <<>>]
               [] OTHER -> RunChat(Tail(lines), fail, sofar \o r.yield)

(***************************************************************************)
(* The script (app-v4.py), run once per UI event.  Every run starts with    *)
(* the sidebar: the catalog query and the update of chosen_model.           *)
(***************************************************************************)
\* the state after the first run of the script in a new session
Init ==
    /\ \E resp \in TagsResponses :
          /\ pulled_models = GetPulledModels(resp).models
          /\ healthy = GetPulledModels(resp).healthy
    /\ chosen_model = ChooseModel(None, pulled_models)
    /\ model = chosen_model
    /\ messages = InitialMessages
    /\ base_url = DefaultBaseUrl
    /\ model_to_pull = <<>>
    /\ clear = FALSE
    /\ user_prompt = None
    /\ pc = "idle"
    /\ requests = <<TagsRequest(None)>>
    /\ streamed = <<>>
    /\ taken = 0
    /\ full_response = <<>>
    /\ chat_error = None
    /\ last_line = <<>>
    /\ pull_report = NoReport
    /\ log_before = <<>>
    /\ StreamAtRest

\* pulled_models, health_info = get_pulled_models() and the model selection
Sidebar(resp, selected) ==
    /\ pulled_models' = GetPulledModels(resp).models
    /\ healthy' = GetPulledModels(resp).healthy
    /\ chosen_model' = ChooseModel(selected, pulled_models')

\* the locals of the previous run are gone
FreshLocals ==
    /\ streamed' = <<>>
    /\ taken' = 0
    /\ full_response' = <<>>
    /\ chat_error' = None
    /\ last_line' = <<>>
    /\ pull_report' = NoReport

\* a run with no button pressed and no prompt (auto-refresh, a slider moved)
Rerun ==
    /\ pc = "idle"
    /\ \E resp \in TagsResponses : Sidebar(resp, chosen_model)
    /\ model' = chosen_model'
    /\ clear' = FALSE
    /\ user_prompt' = None
    /\ requests' = <<TagsRequest(None)>>
    /\ log_before' = messages
    /\ FreshLocals
    /\ UNCHANGED <<messages, base_url, model_to_pull, pc>>
    /\ UNCHANGED streamVars

\* "Clear chat history": if "messages" not in st.session_state or clear
ClearHistory ==
    /\ pc = "idle"
    /\ \E resp \in TagsResponses : Sidebar(resp, chosen_model)
    /\ model' = chosen_model'
    /\ clear' = TRUE
    /\ user_prompt' = None
    /\ messages' = InitialMessages
    /\ requests' = <<TagsRequest(None)>>
    /\ log_before' = messages
    /\ FreshLocals
    /\ UNCHANGED <<base_url, model_to_pull, pc>>
    /\ UNCHANGED streamVars

\* the operator picks one of the offered (pulled) models in the selectbox
SelectModel ==
    /\ pc = "idle"
    /\ \E m \in Range(pulled_models), resp \in TagsResponses :
          /\ m # chosen_model
          /\ Sidebar(resp, m)
    /\ model' = chosen_model'
    /\ clear' = FALSE
    /\ user_prompt' = None
    /\ requests' = <<TagsRequest(None)>>
    /\ log_before' = messages
    /\ FreshLocals
    /\ UNCHANGED <<messages, base_url, model_to_pull, pc>>
    /\ UNCHANGED streamVars

\* the operator edits the "Ollama Base URL" field
SetBaseUrl ==
    /\ pc = "idle"
    /\ \E u \in BaseUrls \ {base_url} : base_url' = u
    /\ \E resp \in TagsResponses : Sidebar(resp, chosen_model)
    /\ model' = chosen_model'
    /\ clear' = FALSE
    /\ user_prompt' = None
    /\ requests' = <<TagsRequest(None)>>
    /\ log_before' = messages
    /\ FreshLocals
    /\ UNCHANGED <<messages, model_to_pull, pc>>
    /\ UNCHANGED streamVars

(***************************************************************************)
(* The chat submit handler.                                                 *)
(***************************************************************************)
\* Variant of HandlerFullResponse that keeps what was streamed before the
\* exception.
HandlerFullResponse_KeepsPartial(chunks, raised, e) == Join(chunks)

\* Variant of HandlerFullResponse that saves the error text as the answer.
HandlerFullResponse_SavesError(chunks, raised, e) ==
    IF raised THEN e ELSE FullResponse(chunks)

\* full_response after the try statement: the accumulated text, or "" when
\* the stream raised (st.write_stream did not return; except: full_response = "")
HandlerFullResponse(chunks, raised, e) ==
    IF raised THEN <<>> ELSE FullResponse(chunks)

\* Variant of SaveAssistant that overwrites the last message.
SaveAssistant_OverwritesLast(msgs, text) ==
    IF Strip(text) # <<>>
    THEN [msgs EXCEPT ![Len(msgs)] = [role |-> "assistant", content |-> text]]
    ELSE msgs

\* if full_response.strip(): st.session_state.messages.append({...})
SaveAssistant(msgs, text) ==
    IF Strip(text) # <<>>
    THEN Append(msgs, [role |-> "assistant", content |-> text])
    ELSE msgs

\* the operator submits a prompt: the sidebar runs, the user message is
\* appended and the request to /api/chat is sent
Submit ==
    /\ pc = "idle"
    /\ Len(messages) + 2 <= MaxMessages
    /\ \E resp \in TagsResponses : Sidebar(resp, chosen_model)
    /\ model' = chosen_model'
    /\ clear' = FALSE
    /\ \E prompt \in Prompts :
          /\ user_prompt' = prompt
          /\ messages' = Append(messages, [role |-> "user", content |-> prompt])
    /\ requests' = <<TagsRequest(None), ChatRequest(model', base_url)>>
    /\ log_before' = messages
    /\ FreshLocals
    /\ pc' = "chat"
    /\ UNCHANGED <<base_url, model_to_pull>>
    /\ UNCHANGED streamVars

\* the end of the handler, once the stream has ended
EndChat(chunks, raised, e) ==
    /\ full_response' = HandlerFullResponse(chunks, raised, e)
    /\ chat_error' = IF raised THEN e ELSE None
    /\ messages' = SaveAssistant(messages, full_response')
    /\ pc' = "idle"

\* the server sends one more line of the answer
ChatLine ==
    /\ pc = "chat"
    /\ taken < MaxChatLines
    /\ \E line \in ChatLines :
          LET r == ChatOnLine(line)
          IN  /\ streamed' = streamed \o r.yield
              /\ IF r.end = "continue"
                 THEN UNCHANGED <<messages, full_response, chat_error, pc>>
                 ELSE EndChat(streamed', r.end = "raise", r.err)
    /\ taken' = taken + 1
    /\ UNCHANGED <<chosen_model, base_url, model_to_pull, pulled_models, healthy,
                   clear, user_prompt, model, requests, last_line, pull_report,
                   log_before>>
    /\ UNCHANGED streamVars

\* the body of the answer ends without a done fragment
ChatBodyEndsInSession ==
    /\ pc = "chat"
    /\ EndChat(streamed, FALSE, <<>>)
    /\ UNCHANGED <<chosen_model, base_url, model_to_pull, pulled_models, healthy,
                   clear, user_prompt, model, requests, streamed, taken, last_line,
                   pull_report, log_before>>
    /\ UNCHANGED streamVars

\* the transport raises: RuntimeError("Failed to reach Ollama at ...")
ChatTransportFailsInSession ==
    /\ pc = "chat"
    /\ \E cause \in Causes : EndChat(streamed, TRUE, FailedToReach(base_url, cause))
    /\ UNCHANGED <<chosen_model, base_url, model_to_pull, pulled_models, healthy,
                   clear, user_prompt, model, requests, streamed, taken, last_line,
                   pull_report, log_before>>
    /\ UNCHANGED streamVars

Next ==
    \/ Rerun
    \/ ClearHistory
    \/ SelectModel
    \/ SetBaseUrl
    \/ Submit
    \/ ChatLine
    \/ ChatBodyEndsInSession
    \/ ChatTransportFailsInSession

Spec == Init /\ [][Next]_vars

(***************************************************************************)
(* The pull handler of the sidebar.                                         *)
(***************************************************************************)
\* "<no output>"
NoOutput == <<"<","n","o"," ","o","u","t","p","u","t",">">>

\* Variant of PullFound that looks up the name as typed.
PullFound_Unstripped(typed, new_pulled) == typed \in Range(new_pulled)

\* if model_to_pull.strip() in new_pulled
PullFound(typed, new_pulled) == Strip(typed) \in Range(new_pulled)

\* (last_line or "<no output>")
LastOutput(last) == IF last # <<>> THEN last ELSE NoOutput

\* the operator types a name and presses "Pull model": the sidebar runs,
\* and with a non-blank name the request to /api/pull is sent
PullClick ==
    /\ pc = "idle"
    /\ \E resp \in TagsResponses : Sidebar(resp, chosen_model)
    /\ \E typed \in PullInputs :
          /\ model_to_pull' = typed
          /\ IF Strip(typed) # <<>>
             THEN /\ pc' = "pull"
                  /\ requests' = <<TagsRequest(None), PullRequest(Strip(typed), None)>>
                  /\ UNCHANGED model
             ELSE /\ pc' = "idle"
                  /\ requests' = <<TagsRequest(None)>>
                  /\ model' = chosen_model'
    /\ clear' = FALSE
    /\ user_prompt' = None
    /\ log_before' = messages
    /\ FreshLocals
    /\ UNCHANGED <<messages, base_url>>
    /\ UNCHANGED streamVars

\* the server sends one more line of pull progress
PullLine ==
    /\ pc = "pull"
    /\ taken < MaxPullLines
    /\ \E raw \in PullRawLines :
          LET items == PullOnLine(raw)
          IN  /\ streamed' = streamed \o items
              /\ last_line' = IF items # <<>> THEN items[1] ELSE last_line
    /\ taken' = taken + 1
    /\ UNCHANGED <<messages, chosen_model, base_url, model_to_pull, pulled_models,
                   healthy, clear, user_prompt, model, pc, requests, full_response,
                   chat_error, pull_report, log_before>>
    /\ UNCHANGED streamVars

\* the pull stream ends (the body ends, or the transport raises and the
\* generator yields its "ERROR: ..." item); the handler queries the catalog
\* again and reports; on success st.experimental_rerun() runs the script anew
PullEnds ==
    /\ pc = "pull"
    /\ \E fail \in {NoFailure} \cup Causes, resp \in TagsResponses, again \in TagsResponses :
          LET items == IF fail # NoFailure THEN <<PullErrorItem(fail)>> ELSE <<>>
              last == IF items # <<>> THEN items[1] ELSE last_line
              new_pulled == GetPulledModels(resp).models
          IN  /\ streamed' = streamed \o items
              /\ last_line' = last
              /\ IF PullFound(model_to_pull, new_pulled)
                 THEN /\ pull_report' = [kind |-> "success", new_pulled |-> new_pulled]
                      /\ Sidebar(again, chosen_model)
                      /\ requests' = requests \o <<TagsRequest(None), TagsRequest(None)>>
                 ELSE /\ pull_report' = [kind |-> "error", new_pulled |-> new_pulled,
                                         last_output |-> LastOutput(last)]
                      /\ requests' = Append(requests, TagsRequest(None))
                      /\ UNCHANGED <<pulled_models, healthy, chosen_model>>
    /\ model' = chosen_model'
    /\ pc' = "idle"
    /\ UNCHANGED <<messages, base_url, model_to_pull, clear, user_prompt, taken,
                   full_response, chat_error, log_before>>
    /\ UNCHANGED streamVars

NextPull ==
    \/ Rerun
    \/ SelectModel
    \/ SetBaseUrl
    \/ PullClick
    \/ PullLine
    \/ PullEnds

SpecPull == Init /\ [][NextPull]_vars

(***************************************************************************)
(* Vocabulary of the properties.                                            *)
(***************************************************************************)
IsJunk(line) == line.kind \in {"empty", "blank", "garbage"}
IsErrorFragment(line) == line.kind = "json" /\ "error" \in DOMAIN line.data
IsDoneFragment(line) ==
    line.kind = "json" /\ "done" \in DOMAIN line.data /\ line.data["done"] = TRUE

\* message.content of a well-formed fragment, <<>> when there is none
ContentOf(line) ==
    IF line.kind = "json" /\ "message" \in DOMAIN line.data
                          /\ "content" \in DOMAIN line.data["message"]
    THEN line.data["message"]["content"]
    ELSE <<>>

NonEmpty(t) == t # <<>>

\* the non-empty contents of the first k lines, in arrival order
ContentsUpTo(lines, k) == SelectSeq([i \in 1..k |-> ContentOf(lines[i])], NonEmpty)

\* index of the first done fragment, Len(lines) when there is none
FirstDone(lines) ==
    IF \E i \in 1..Len(lines) : IsDoneFragment(lines[i])
    THEN CHOOSE i \in 1..Len(lines) :
            /\ IsDoneFragment(lines[i])
            /\ \A j \in 1..(i - 1) : ~IsDoneFragment(lines[j])
    ELSE Len(lines)

HasDone(lines) == \E i \in 1..Len(lines) : IsDoneFragment(lines[i])
HasError(lines) == \E i \in 1..Len(lines) : IsErrorFragment(lines[i])

HasPrefix(s, p) == Len(s) >= Len(p) /\ SubSeq(s, 1, Len(p)) = p
IsErrorItem(item) == HasPrefix(item, <<"E","R","R","O","R",":"," ">>)

\* C1: over a response with no error fragment (and no transport failure),
\* stream_chat_ollama never raises; what it has yielded is exactly the
\* non-empty contents of the lines taken so far, in order; it takes no line
\* beyond the first done fragment and has returned once it took that one; and
\* the caller's accumulated text is the concatenation of those contents.
C1_YieldsContentsUpToDone ==
    (gen = "chat" /\ ~HasError(input.lines) /\ input.fail = NoFailure) =>
        /\ status # "raised"
        /\ pos <= FirstDone(input.lines)
        /\ yielded = ContentsUpTo(input.lines, pos)
        /\ (HasDone(input.lines) /\ pos = FirstDone(input.lines)) => status = "returned"
        /\ status = "returned" =>
              /\ pos = FirstDone(input.lines)
              /\ FullResponse(yielded) = Join(ContentsUpTo(input.lines, FirstDone(input.lines)))
        /\ status = "running" => ENABLED NextStream

\* C1 witness: a three-line response whose second line carries content and
\* done; two deltas were yielded and the third line was never taken.
C1_Witness ==
    /\ gen = "chat" /\ status = "returned"
    /\ ~HasError(input.lines) /\ input.fail = NoFailure
    /\ Len(input.lines) = 3 /\ pos = 2
    /\ IsDoneFragment(input.lines[2]) /\ ContentOf(input.lines[2]) # <<>>
    /\ ~IsJunk(input.lines[3])
    /\ Len(yielded) = 2 /\ yielded[1] # yielded[2]

\* C2: the line at which an error fragment is taken ends the generator with
\* that error message: nothing of that fragment is yielded (what was yielded
\* is the content of the lines before it) and no line after an error fragment
\* is ever taken.
C2_ErrorFragmentRaises ==
    gen = "chat" =>
        /\ \A i \in 1..(pos - 1) : ~IsErrorFragment(input.lines[i])
        /\ (pos >= 1 /\ IsErrorFragment(input.lines[pos])) =>
              /\ status = "raised"
              /\ err = input.lines[pos].data["error"]
              /\ yielded = ContentsUpTo(input.lines, pos - 1)
        /\ (input.lines # <<>> /\ IsErrorFragment(input.lines[1]) /\ pos >= 1) =>
              yielded = <<>>

\* C2 witness: an error fragment that also carries content and done was taken
\* after a content fragment, with a line still behind it.
C2_Witness ==
    /\ gen = "chat" /\ status = "raised"
    /\ pos = 2 /\ Len(input.lines) = 3
    /\ IsErrorFragment(input.lines[2])
    /\ ContentOf(input.lines[2]) # <<>> /\ IsDoneFragment(input.lines[2])
    /\ Len(yielded) = 1
    /\ ContentOf(input.lines[3]) # <<>>

\* C7: pull_model_stream never raises; when the transport raises, the
\* generator ends normally having yielded exactly one item of the form
\* "ERROR: <cause>", as its last item; before that no item has this form.
C7_PullErrorInBand ==
    gen = "pull" =>
        /\ status # "raised"
        /\ (status = "returned" /\ input.fail # NoFailure) =>
              /\ yielded # <<>>
              /\ yielded[Len(yielded)] = <<"E","R","R","O","R",":"," ">> \o input.fail
              /\ Cardinality({i \in 1..Len(yielded) : IsErrorItem(yielded[i])}) = 1
        /\ (status = "running" \/ input.fail = NoFailure) =>
              \A i \in 1..Len(yielded) : ~IsErrorItem(yielded[i])

\* C7 witness: the transport raised after two progress lines.
C7_Witness ==
    /\ gen = "pull" /\ status = "returned" /\ input.fail # NoFailure
    /\ Len(yielded) = 3

\* the response without its empty, whitespace-only and non-JSON lines
NotJunk(line) == ~IsJunk(line)
WithoutJunk(lines) == SelectSeq(lines, NotJunk)

\* C9: the deltas yielded and the way the stream ended (normally, or raising
\* which message) are those of the same response with its empty,
\* whitespace-only and non-JSON lines removed; while only such lines have been
\* taken the stream is still running with nothing yielded.
C9_JunkLinesDropped ==
    gen = "chat" =>
        /\ status # "running" =>
              LET clean == RunChat(WithoutJunk(input.lines), input.fail, <<>>)
              IN  /\ yielded = clean.yielded
                  /\ status = clean.status
                  /\ err = clean.err
        /\ (pos < Len(input.lines) /\ \A i \in 1..pos : IsJunk(input.lines[i])) =>
              (status = "running" /\ yielded = <<>>)

\* C9 witness: a finished stream that took junk lines before and after a
\* content fragment.
C9_Witness ==
    /\ gen = "chat" /\ status = "returned" /\ pos = 3
    /\ input.lines[1].kind = "garbage"
    /\ ContentOf(input.lines[2]) # <<>>
    /\ input.lines[3].kind \in {"empty", "blank"}
    /\ yielded # <<>>


(***************************************************************************)
(* Properties of the session.                                               *)
(***************************************************************************)
\* the chat action has finished with an error message shown
ChatFailed == pc = "idle" /\ chat_error # None

UserMessage == [role |-> "user", content |-> user_prompt]

\* C3 as stated: after a stream that yielded deltas and then raised on an
\* error fragment, the log ends with an assistant message holding the text
\* streamed before the error.
C3_PartialContentKept ==
    (ChatFailed /\ chat_error \in ErrorTexts /\ streamed # <<>>) =>
        messages[Len(messages)] = [role |-> "assistant", content |-> Join(streamed)]

\* C3 amended: after a stream that yielded deltas and then raised on an
\* error fragment, nothing of the streamed text is kept: full_response is
\* empty, no assistant message is appended and the log is the log before the
\* action followed by the submitted user message.
C3_PartialContentDropped ==
    (ChatFailed /\ chat_error \in ErrorTexts /\ streamed # <<>>) =>
        /\ full_response = <<>>
        /\ messages = Append(log_before, UserMessage)

\* C3 witness: an error fragment arrived after non-blank text was streamed.
C3_Witness ==
    /\ ChatFailed /\ chat_error \in ErrorTexts
    /\ Strip(Join(streamed)) # <<>>
    /\ Len(log_before) >= 3

\* C4: after a chat action that failed (error fragment or transport failure)
\* with nothing streamed, the log is the log before the action followed by
\* the submitted user message only, and the next prompt can be submitted.
C4_FailedTurnAddsUserMessageOnly ==
    (ChatFailed /\ streamed = <<>>) =>
        /\ messages = Append(log_before, UserMessage)
        /\ full_response = <<>>
        /\ Len(messages) + 2 <= MaxMessages => ENABLED Submit

\* C4 witness: a transport failure with nothing streamed, on the retry of a
\* turn that had failed before.
C4_Witness ==
    /\ ChatFailed /\ streamed = <<>>
    /\ chat_error \notin ErrorTexts
    /\ Len(log_before) = 2 /\ log_before[2].role = "user"
    /\ Len(messages) + 2 <= MaxMessages

\* C5: the conversation always holds exactly one system message, at index 1
\* with the fixed preamble, and right after a clear it is that message alone.
C5_OneSystemMessageAtHead ==
    /\ Len(messages) >= 1
    /\ messages[1] = [role |-> "system", content |-> SystemPrompt]
    /\ \A i \in 2..Len(messages) : messages[i].role # "system"
    /\ clear => messages = <<[role |-> "system", content |-> SystemPrompt]>>

\* C5 witness: a clear of a conversation that held an answer.
C5_Witness ==
    /\ clear
    /\ Len(log_before) >= 3 /\ log_before[3].role = "assistant"
    /\ Len(messages) = 1

\* C6: every step that is not a clear leaves the log unchanged or appends
\* exactly one message to it.
C6_AppendOnly ==
    [][~clear' =>
          \/ messages' = messages
          \/ /\ Len(messages') = Len(messages) + 1
             /\ SubSeq(messages', 1, Len(messages)) = messages]_vars

\* C6 witness: a second answer was appended behind a first complete turn.
C6_Witness ==
    /\ pc = "idle" /\ ~clear
    /\ Len(messages) = 5
    /\ messages[3].role = "assistant" /\ messages[5].role = "assistant"
    /\ log_before = SubSeq(messages, 1, 3)

\* C10 as stated: every chat request names a model of the list the most
\* recent catalog query returned.
C10_ChatModelInCatalog ==
    \A i \in 1..Len(requests) :
        requests[i].path = "/api/chat" => requests[i].model \in Range(pulled_models)

\* C8: the pull handler reports after the stream has ended and the catalog
\* was queried again; it reports success exactly when the stripped name is
\* among the names of that query, whatever was streamed; otherwise it shows
\* the last item received from the stream, or "<no output>" if there was none.
C8_PullOutcomeByCatalog ==
    pull_report.kind # "none" =>
        /\ pc = "idle"
        /\ Len(requests) >= 3
        /\ requests[2].path = "/api/pull" /\ requests[3].path = "/api/tags"
        /\ pull_report.kind = "success" <=>
              Strip(model_to_pull) \in Range(pull_report.new_pulled)
        /\ pull_report.kind = "error" =>
              pull_report.last_output =
                 IF streamed = <<>> THEN <<"<","n","o"," ","o","u","t","p","u","t",">">>
                 ELSE streamed[Len(streamed)]

\* C8 witness: success reported although the stream ended with an "ERROR: ..."
\* item, for a name typed with trailing whitespace.
C8_Witness ==
    /\ pull_report.kind = "success"
    /\ streamed # <<>> /\ IsErrorItem(streamed[Len(streamed)])
    /\ model_to_pull # Strip(model_to_pull)


\* the chat action has finished and the stream ended normally
ChatCompleted == pc = "idle" /\ user_prompt # None /\ chat_error = None

\* C11 as stated: after every stream that completed normally and yielded at
\* least one delta, the log is the prior log, the user message, then an
\* assistant message holding the concatenation of the deltas.
C11_CompletedStreamSaved ==
    (ChatCompleted /\ streamed # <<>>) =>
        messages = log_before \o
            <<UserMessage, [role |-> "assistant", content |-> Join(streamed)]>>

\* C11 amended: after a stream that completed normally and whose deltas hold
\* a non-whitespace character, the log is the prior log, the user message,
\* then one assistant message holding the concatenation of the deltas; when
\* the deltas are all whitespace no assistant message is appended.
C11_CompletedNonBlankStreamSaved ==
    (ChatCompleted /\ streamed # <<>>) =>
        IF \E i \in 1..Len(Join(streamed)) : Join(streamed)[i] \notin {" ", "\t", "\n"}
        THEN messages = log_before \o
                <<UserMessage, [role |-> "assistant", content |-> Join(streamed)]>>
        ELSE messages = Append(log_before, UserMessage)

\* C11 witness: a second turn completed with two different deltas, one of
\* them not blank.
C11_Witness ==
    /\ ChatCompleted
    /\ Len(streamed) = 2 /\ streamed[1] # streamed[2]
    /\ Len(log_before) = 3
    /\ Len(messages) = 5

\* C12 as stated: once the base URL field differs from the default, every
\* request (catalog query, pull, post-pull catalog check, chat) goes to the
\* URL of the field.
C12_RequestsUseBaseUrlField ==
    base_url # DefaultBaseUrl =>
        \A i \in 1..Len(requests) :
            requests[i].base \in {base_url, RStripSet(base_url, {"/"})}

====
